---- MODULE Spec2Model ----
(***************************************************************************)
(* Model of ollama_model_keeper.py: the reconciler loop main(), its        *)
(* monitor sub-loop monitor_for_other_models(), wait_for_unload(), and the *)
(* two daemon requests check_loaded_models() / load_model().               *)
(*                                                                         *)
(* Time.  The program only ever compares timestamps with time.time() and   *)
(* subtracts time.time() from them, so every timestamp is stored as its    *)
(* offset from the current instant: Now is 0, a sleep of d seconds lowers  *)
(* every stored timestamp by d, and offsets below -PastFloor are clamped   *)
(* (a timestamp that far in the past behaves like any other past one).     *)
(* Every interval of the program is a multiple of 5 seconds; the keep-      *)
(* alives other clients set are taken from the same 5-second grid.         *)
(* The absolute timestamp 0, which the code uses for "no expiry" and as    *)
(* the start value of latest_expires_at, lies far below every offset and   *)
(* is the fixed value ZeroTs.                                              *)
(*                                                                         *)
(* Daemon.  The code tells records apart only as target / not target and   *)
(* reads the expiries in list order, so ps() lists the models in one fixed  *)
(* order of names (ListOrder) and the expiries vary freely over it.         *)
(***************************************************************************)
EXTENDS Integers, Sequences, FiniteSets, TLC

\* ---------------------------------------------------------------- bounds
MaxModels   == 2     \* most records the daemon holds at once
ExpirySteps == 2     \* keep-alives other clients set: 1..ExpirySteps grid steps

\* ------------------------------------------------------ program constants
TARGET_MODEL     == "T"
CYCLE_INTERVAL   == 5
MONITOR_INTERVAL == 60
BACKOFF          == 10
UNLOAD_BUFFER    == 5
KEEP_ALIVE       == -1
ZeroTs           == -1000
Now              == 0

OtherNames == {"A", "B"}
ListOrder  == <<"A", "B", TARGET_MODEL>>   \* the order in which ps() lists models
NoName     == "?"          \* a record without a "name" key
GridStep   == UNLOAD_BUFFER
PastFloor  == UNLOAD_BUFFER
ExpiryChoices == {k * GridStep : k \in 1..ExpirySteps}

Max(a, b) == IF a >= b THEN a ELSE b

\* ------------------------------------------------------------------ state
VARIABLES
  pc,          \* where the reconciler task is
  blocked,     \* TRUE while it is inside client.ps() / client.generate()
  inflight,    \* requests sent to the daemon and not yet answered
  snapshot,    \* the models of the ps() response the task is deciding on; it is
               \* not read again once the task sends its next probe or wakes up
  dur,         \* duration of the sleep the task is suspended in
  daemon,      \* what the daemon really holds: sequence of records
  up,          \* daemon reachable
  errlog,      \* logger.error lines written in the current main-loop iteration
  stopSignal,  \* an external stop was delivered
  \* history of the run, read only by the properties
  lastProbe,        \* "none" | "ok" | "failed": outcome of the latest probe
  lastSite,         \* call site of the latest probe
  loadsSinceProbe,  \* generate requests issued since the latest probe returned
  sleepsSinceProbe, \* the sleeps ended since the latest probe returned: <<site, seconds>>
  loadsInCycle,     \* generate requests issued in this main-loop iteration
  lastKind,         \* Classify of the latest successful probe's models
  wokeFrom,         \* the sleep the task woke from to make the latest probe ("none":
                    \* it came straight from the previous response)
  cycleFirst,       \* Classify of this iteration's line-112 probe ("Failed" if it raised)
  failure           \* what sent the task to the backoff sleep

vars == <<pc, blocked, inflight, snapshot, dur, daemon, up, errlog, stopSignal,
          lastProbe, lastSite, loadsSinceProbe, sleepsSinceProbe, loadsInCycle,
          lastKind, wokeFrom, cycleFirst, failure>>

ProbeSites == {"main_probe", "mon_probe", "re_probe"}
LoadSites  == {"load_mon", "load_re", "load_main"}
SleepSites == {"sleep_cycle", "sleep_mon_target", "sleep_mon_never", "wait_mon",
               "wait_main", "sleep_main_never", "backoff"}

\* ------------------------------------------------------- pure computations
Rec(n, e) == [name |-> n, expires_at |-> e]

\* model_names = [model["name"] for model in models]: KeyError on a nameless record
NamesRaise(models) == \E i \in 1..Len(models) : models[i].name = NoName

ModelNames(models) == {models[i].name : i \in 1..Len(models)}

\* main, lines 125-134
RECURSIVE MainLatestFrom(_, _, _)
MainLatestFrom(models, i, latest) ==
  IF i > Len(models) THEN latest
  ELSE LET expires_at == models[i].expires_at IN
       IF expires_at = ZeroTs THEN MainLatestFrom(models, i + 1, latest)
       ELSE IF expires_at > Now
            THEN MainLatestFrom(models, i + 1, Max(latest, expires_at))
            ELSE MainLatestFrom(models, i + 1, latest)

MainLatest(models) == MainLatestFrom(models, 1, ZeroTs)

\* monitor_for_other_models, lines 77-88
RECURSIVE MonitorLatestFrom(_, _, _)
MonitorLatestFrom(models, i, latest) ==
  IF i > Len(models) THEN latest
  ELSE LET expires_at == models[i].expires_at IN
       IF expires_at = ZeroTs THEN MonitorLatestFrom(models, i + 1, latest)
       ELSE IF expires_at > Now
            THEN MonitorLatestFrom(models, i + 1, Max(latest, expires_at) + UNLOAD_BUFFER)
            ELSE MonitorLatestFrom(models, i + 1, latest)

MonitorLatest(models) == MonitorLatestFrom(models, 1, ZeroTs)

\* wait_for_unload, line 53
RemainingSeconds(expires_at) == Max(0, expires_at - Now)

\* d seconds pass: every real timestamp moves d closer to / further into the past
ShiftTs(e, d) == IF e = ZeroTs THEN ZeroTs ELSE Max(e - d, -PastFloor)
Elapse(models, d) ==
  [i \in 1..Len(models) |-> Rec(models[i].name, ShiftTs(models[i].expires_at, d))]


Rank(n) == CHOOSE i \in 1..Len(ListOrder) : ListOrder[i] = n

\* the daemon's list with record r added, or put in place of the record of the
\* same name
Insert(models, r) ==
  SelectSeq(models, LAMBDA x : Rank(x.name) < Rank(r.name))
    \o <<r>> \o
  SelectSeq(models, LAMBDA x : Rank(x.name) > Rank(r.name))

\* what ps() can return when the daemon holds `models`: the records as they are,
\* or with one record lacking its "name" key
Responses(models) ==
  {models} \cup
  { [models EXCEPT ![i] = Rec(NoName, models[i].expires_at)] : i \in 1..Len(models) }

\* generate(model=name, keep_alive=-1) served by the daemon: the model becomes
\* resident with no expiry; the daemon keeps the other models if it has room for
\* them and may unload them all to make room
LoadInto(models, name) ==
  LET others == SelectSeq(models, LAMBDA r : r.name # name) IN
  {<<Rec(name, ZeroTs)>>} \cup
  (IF Len(others) < MaxModels THEN {Insert(models, Rec(name, ZeroTs))} ELSE {})

\* ---------------------------------------------------------------- decisions
\* Each decision is the straight-line code from the return of a probe to the
\* next suspension or request: where the task goes, how long it sleeps there,
\* and the logger.error lines written on the way.
Go(p, d, l) == [pc |-> p, dur |-> d, log |-> l]

\* MainDecide sleeping the cycle interval where it should sleep the monitor interval
MainDecideShortNeverSleep(models) ==
  IF NamesRaise(models) THEN Go("backoff", BACKOFF, {"main"})
  ELSE IF TARGET_MODEL \in ModelNames(models) THEN Go("mon_probe", 0, {})
  ELSE IF models # <<>> THEN
    IF MainLatest(models) > ZeroTs
    THEN Go("wait_main", RemainingSeconds(MainLatest(models)), {})
    ELSE Go("sleep_main_never", CYCLE_INTERVAL, {})
  ELSE Go("load_main", 0, {})

\* MainDecide with the "only non-expiring models" branch falling into the load
MainDecideLoadsOverNever(models) ==
  IF NamesRaise(models) THEN Go("backoff", BACKOFF, {"main"})
  ELSE IF TARGET_MODEL \in ModelNames(models) THEN Go("mon_probe", 0, {})
  ELSE IF models # <<>> /\ MainLatest(models) > ZeroTs
  THEN Go("wait_main", RemainingSeconds(MainLatest(models)), {})
  ELSE Go("load_main", 0, {})

\* MainDecide probing again at once, without a sleep, when the models loaded
\* have no expiry
MainDecideSpinsOnNever(models) ==
  IF NamesRaise(models) THEN Go("backoff", BACKOFF, {"main"})
  ELSE IF TARGET_MODEL \in ModelNames(models) THEN Go("mon_probe", 0, {})
  ELSE IF models # <<>> THEN
    IF MainLatest(models) > ZeroTs
    THEN Go("wait_main", RemainingSeconds(MainLatest(models)), {})
    ELSE Go("main_probe", 0, {})
  ELSE Go("load_main", 0, {})

\* main, lines 113-154, on the response of the line-112 probe
MainDecide(models) ==
  IF NamesRaise(models) THEN Go("backoff", BACKOFF, {"main"})
  ELSE IF TARGET_MODEL \in ModelNames(models) THEN Go("mon_probe", 0, {})
  ELSE IF models # <<>> THEN
    LET latest_expires_at == MainLatest(models) IN
    IF latest_expires_at > ZeroTs
    THEN IF RemainingSeconds(latest_expires_at) > 0
         THEN Go("wait_main", RemainingSeconds(latest_expires_at), {})
         ELSE Go("re_probe", 0, {})
    ELSE Go("sleep_main_never", MONITOR_INTERVAL, {})
  ELSE Go("load_main", 0, {})

\* MonitorDecide that keeps monitoring when nothing is loaded
MonitorDecideNeverReturnsFalse(models) ==
  IF NamesRaise(models) THEN Go("backoff", BACKOFF, {"monitor", "main"})
  ELSE IF TARGET_MODEL \in ModelNames(models) THEN
    IF Len(models) > 1
    THEN Go("sleep_cycle", CYCLE_INTERVAL, {})
    ELSE Go("sleep_mon_target", MONITOR_INTERVAL, {})
  ELSE IF models # <<>> /\ MonitorLatest(models) > ZeroTs
  THEN Go("wait_mon", RemainingSeconds(MonitorLatest(models)), {})
  ELSE Go("sleep_mon_never", MONITOR_INTERVAL, {})

\* MonitorDecide returning False (reload) as soon as the target is alone
MonitorDecideReloadsAlone(models) ==
  IF NamesRaise(models) THEN Go("backoff", BACKOFF, {"monitor", "main"})
  ELSE IF TARGET_MODEL \in ModelNames(models) THEN
    IF Len(models) > 1
    THEN Go("sleep_cycle", CYCLE_INTERVAL, {})
    ELSE Go("load_mon", 0, {})
  ELSE IF models # <<>> THEN
    IF MonitorLatest(models) > ZeroTs
    THEN Go("wait_mon", RemainingSeconds(MonitorLatest(models)), {})
    ELSE Go("sleep_mon_never", MONITOR_INTERVAL, {})
  ELSE Go("load_mon", 0, {})

\* MonitorDecide with the result of "other models detected" inverted
MonitorDecideMixedReturnsFalse(models) ==
  IF NamesRaise(models) THEN Go("backoff", BACKOFF, {"monitor", "main"})
  ELSE IF TARGET_MODEL \in ModelNames(models) THEN
    IF Len(models) > 1
    THEN Go("load_mon", 0, {})
    ELSE Go("sleep_mon_target", MONITOR_INTERVAL, {})
  ELSE IF models # <<>> THEN
    IF MonitorLatest(models) > ZeroTs
    THEN Go("wait_mon", RemainingSeconds(MonitorLatest(models)), {})
    ELSE Go("sleep_mon_never", MONITOR_INTERVAL, {})
  ELSE Go("load_mon", 0, {})

\* MonitorDecide that stays in its loop, polling at the monitor interval, while
\* other models are loaded beside the target
MonitorDecidePollsOnMixed(models) ==
  IF NamesRaise(models) THEN Go("backoff", BACKOFF, {"monitor", "main"})
  ELSE IF TARGET_MODEL \in ModelNames(models) THEN
    Go("sleep_mon_target", MONITOR_INTERVAL, {})
  ELSE IF models # <<>> THEN
    IF MonitorLatest(models) > ZeroTs
    THEN Go("wait_mon", RemainingSeconds(MonitorLatest(models)), {})
    ELSE Go("sleep_mon_never", MONITOR_INTERVAL, {})
  ELSE Go("load_mon", 0, {})

\* MonitorDecide that returns to main as soon as it sees the target, alone or not
MonitorDecideReturnsOnTargetAlone(models) ==
  IF NamesRaise(models) THEN Go("backoff", BACKOFF, {"monitor", "main"})
  ELSE IF TARGET_MODEL \in ModelNames(models) THEN
    Go("sleep_cycle", CYCLE_INTERVAL, {})
  ELSE IF models # <<>> THEN
    IF MonitorLatest(models) > ZeroTs
    THEN Go("wait_mon", RemainingSeconds(MonitorLatest(models)), {})
    ELSE Go("sleep_mon_never", MONITOR_INTERVAL, {})
  ELSE Go("load_mon", 0, {})

\* monitor_for_other_models, lines 63-103, on the response of the line-62 probe;
\* "return True" continues in main at line 157, "return False" at line 122
MonitorDecide(models) ==
  IF NamesRaise(models) THEN Go("backoff", BACKOFF, {"monitor", "main"})
  ELSE IF TARGET_MODEL \in ModelNames(models) THEN
    IF Len(models) > 1
    THEN Go("sleep_cycle", CYCLE_INTERVAL, {})
    ELSE Go("sleep_mon_target", MONITOR_INTERVAL, {})
  ELSE IF models # <<>> THEN
    LET latest_expires_at == MonitorLatest(models) IN
    IF latest_expires_at > ZeroTs
    THEN IF RemainingSeconds(latest_expires_at) > 0
         THEN Go("wait_mon", RemainingSeconds(latest_expires_at), {})
         ELSE Go("mon_probe", 0, {})
    ELSE Go("sleep_mon_never", MONITOR_INTERVAL, {})
  ELSE Go("load_mon", 0, {})

\* ReprobeDecide loading whatever the re-probe returned
ReprobeDecideLoadsAnyway(models) ==
  IF models # <<>> /\ NamesRaise(models) THEN Go("backoff", BACKOFF, {"main"})
  ELSE Go("load_re", 0, {})

\* main, lines 142-158, on the response of the line-141 probe
ReprobeDecide(models) ==
  IF models = <<>> THEN Go("load_re", 0, {})
  ELSE IF NamesRaise(models) THEN Go("backoff", BACKOFF, {"main"})
  ELSE Go("sleep_cycle", CYCLE_INTERVAL, {})

Decide(site, models) ==
  CASE site = "main_probe" -> MainDecide(models)
    [] site = "mon_probe"  -> MonitorDecide(models)
    [] site = "re_probe"   -> ReprobeDecide(models)

\* ProbeFailed with the monitor's handler returning False instead of re-raising
ProbeFailedMonitorReturnsFalse(site) ==
  IF site = "mon_probe"
  THEN Go("load_mon", 0, {"check", "monitor"})
  ELSE Go("backoff", BACKOFF, {"check", "main"})

\* ProbeFailed with no handler at the top of main's loop
ProbeFailedEscapes(site) ==
  Go("crashed", 0, {"check"} \cup (IF site = "mon_probe" THEN {"monitor"} ELSE {}))

\* ProbeFailed with the monitor probing again on the spot after a failed probe
ProbeFailedMonitorRetries(site) ==
  IF site = "mon_probe"
  THEN Go("mon_probe", 0, {"check", "monitor"})
  ELSE Go("backoff", BACKOFF, {"check", "main"})

\* check_loaded_models raised: lines 32-34, 101-103 (inside the monitor), 163-166
ProbeFailed(site) ==
  Go("backoff", BACKOFF,
     {"check", "main"} \cup (IF site = "mon_probe" THEN {"monitor"} ELSE {}))

\* LoadDone retrying a failed load on the spot
LoadDoneRetries(ok) ==
  IF ok THEN Go("sleep_cycle", CYCLE_INTERVAL, {})
  ELSE Go("load_main", 0, {"load"})

\* load_model returned (lines 41, 157-158) or raised (lines 42-44, 163-166)
LoadDone(ok) ==
  IF ok THEN Go("sleep_cycle", CYCLE_INTERVAL, {})
  ELSE Go("backoff", BACKOFF, {"load", "main"})

\* where each sleep resumes
AfterSleep(site) ==
  CASE site = "sleep_cycle"      -> Go("main_probe", 0, {})
    [] site = "backoff"          -> Go("main_probe", 0, {})
    [] site = "sleep_mon_target" -> Go("mon_probe", 0, {})
    [] site = "sleep_mon_never"  -> Go("mon_probe", 0, {})
    [] site = "wait_mon"         -> Go("mon_probe", 0, {})
    [] site = "wait_main"        -> Go("re_probe", 0, {})
    [] site = "sleep_main_never" -> Go("sleep_cycle", CYCLE_INTERVAL, {})

\* the states of the decision core, for the properties: the four of the design
\* (others-only split by whether any record has a numeric expiry) and the
\* snapshot the code cannot read
Classify(models) ==
  IF models = <<>> THEN "Empty"
  ELSE IF NamesRaise(models) THEN "Malformed"
  ELSE IF TARGET_MODEL \notin ModelNames(models) THEN
    IF \A i \in 1..Len(models) : models[i].expires_at = ZeroTs
    THEN "OthersNever" ELSE "OthersExpiring"
  ELSE IF Len(models) > 1 THEN "Mixed"
  ELSE "TargetOnly"

\* ------------------------------------------------------------------ actions
Init ==
  /\ pc = "main_probe" /\ blocked = FALSE /\ inflight = <<>>
  /\ snapshot = <<>> /\ dur = 0
  /\ daemon = <<>> /\ up = TRUE
  /\ errlog = {} /\ stopSignal = FALSE
  /\ lastProbe = "none" /\ lastSite = "none"
  /\ loadsSinceProbe = 0 /\ sleepsSinceProbe = <<>>
  /\ loadsInCycle = 0 /\ lastKind = "none" /\ cycleFirst = "none" /\ failure = "none"
  /\ wokeFrom = "none"

\* check_loaded_models: client.ps() is sent (line 29)
IssueProbe ==
  /\ pc \in ProbeSites /\ ~blocked
  /\ inflight' = Append(inflight, [op |-> "ps", model |-> "", keep_alive |-> 0])
  /\ blocked' = TRUE
  /\ snapshot' = <<>>
  /\ UNCHANGED <<pc, dur, daemon, up, errlog, stopSignal, lastProbe,
                 lastSite, loadsSinceProbe, sleepsSinceProbe, loadsInCycle,
                 lastKind, wokeFrom, cycleFirst, failure>>

\* client.ps() returns or raises, and the task runs on to its next suspension
\* or request
ProbeReturn(ok, models) ==
  LET d == IF ok THEN Decide(pc, models) ELSE ProbeFailed(pc) IN
  /\ pc' = d.pc /\ dur' = d.dur
  /\ errlog' = errlog \cup d.log
  /\ snapshot' = IF ok THEN models ELSE snapshot
  /\ lastProbe' = IF ok THEN "ok" ELSE "failed"
  /\ lastKind' = IF ok THEN Classify(models) ELSE lastKind
  /\ wokeFrom' = IF sleepsSinceProbe = <<>> THEN "none"
                 ELSE sleepsSinceProbe[Len(sleepsSinceProbe)][1]
  /\ lastSite' = pc
  /\ loadsSinceProbe' = 0 /\ sleepsSinceProbe' = <<>>
  /\ cycleFirst' = IF pc # "main_probe" THEN cycleFirst
                   ELSE IF ok THEN Classify(models) ELSE "Failed"
  /\ failure' = IF ~ok THEN "probe"
                ELSE IF d.pc = "backoff" THEN "malformed" ELSE failure

ProbeResponse ==
  /\ pc \in ProbeSites /\ blocked
  /\ inflight # <<>> /\ Head(inflight).op = "ps"
  /\ inflight' = Tail(inflight) /\ blocked' = FALSE
  /\ IF up THEN \E models \in Responses(daemon) : ProbeReturn(TRUE, models)
           ELSE ProbeReturn(FALSE, <<>>)
  /\ UNCHANGED <<daemon, up, stopSignal, loadsInCycle>>

\* IssueLoad that does not wait for the answer of the daemon before the task
\* goes on
IssueLoadNotAwaited ==
  /\ pc \in LoadSites /\ Len(inflight) < 2
  /\ inflight' = Append(inflight,
        [op |-> "generate", model |-> TARGET_MODEL, keep_alive |-> KEEP_ALIVE])
  /\ blocked' = FALSE
  /\ loadsSinceProbe' = loadsSinceProbe + 1
  /\ loadsInCycle' = loadsInCycle + 1
  /\ UNCHANGED <<pc, snapshot, dur, daemon, up, errlog, stopSignal, lastProbe,
                 lastSite, sleepsSinceProbe, lastKind, wokeFrom, cycleFirst, failure>>

\* load_model: client.generate(model=TARGET_MODEL, keep_alive=-1) is sent (line 39)
IssueLoad ==
  /\ pc \in LoadSites /\ ~blocked
  /\ inflight' = Append(inflight,
        [op |-> "generate", model |-> TARGET_MODEL, keep_alive |-> KEEP_ALIVE])
  /\ blocked' = TRUE
  /\ loadsSinceProbe' = loadsSinceProbe + 1
  /\ loadsInCycle' = loadsInCycle + 1
  /\ UNCHANGED <<pc, snapshot, dur, daemon, up, errlog, stopSignal, lastProbe,
                 lastSite, sleepsSinceProbe, lastKind, wokeFrom, cycleFirst, failure>>

\* client.generate() returns or raises
LoadResponse ==
  LET d == LoadDone(up) IN
  /\ pc \in LoadSites /\ blocked
  /\ inflight # <<>> /\ Head(inflight).op = "generate"
  /\ inflight' = Tail(inflight) /\ blocked' = FALSE
  /\ pc' = d.pc /\ dur' = d.dur /\ errlog' = errlog \cup d.log
  /\ failure' = IF up THEN failure ELSE "load"
  /\ IF up THEN daemon' \in LoadInto(daemon, Head(inflight).model)
           ELSE daemon' = daemon
  /\ UNCHANGED <<snapshot, up, stopSignal, lastProbe, lastSite, loadsSinceProbe,
                 sleepsSinceProbe, loadsInCycle, lastKind, wokeFrom, cycleFirst>>

\* an asyncio.sleep ends after dur seconds; a sleep that ends an iteration of
\* main's loop starts the next one
SleepDone ==
  LET d == AfterSleep(pc) IN
  /\ pc \in SleepSites
  /\ pc' = d.pc /\ dur' = d.dur
  /\ daemon' = Elapse(daemon, dur)
  /\ snapshot' = <<>>
  /\ sleepsSinceProbe' = Append(sleepsSinceProbe, <<pc, dur>>)
  /\ IF d.pc = "main_probe"
     THEN errlog' = {} /\ loadsInCycle' = 0 /\ cycleFirst' = "none" /\ failure' = "none"
     ELSE UNCHANGED <<errlog, loadsInCycle, cycleFirst, failure>>
  /\ UNCHANGED <<blocked, inflight, up, stopSignal, lastProbe, lastSite,
                 loadsSinceProbe, lastKind, wokeFrom>>

\* Stop with the cancellation caught by the "except Exception" handler of main,
\* which logs it and sleeps the backoff
StopCaughtAsError ==
  /\ pc \in SleepSites
  /\ pc' = "backoff" /\ stopSignal' = TRUE /\ dur' = BACKOFF
  /\ errlog' = errlog \cup {"main"}
  /\ UNCHANGED <<blocked, inflight, snapshot, daemon, up, lastProbe, lastSite,
                 loadsSinceProbe, sleepsSinceProbe, loadsInCycle, lastKind, wokeFrom,
                 cycleFirst, failure>>

\* the external stop signal cancels the task at a suspension point: the
\* CancelledError raised at the await is not an Exception, so neither handler
\* (lines 101, 163) catches it and it leaves main
Stop ==
  /\ pc \in SleepSites
  /\ pc' = "stopped" /\ stopSignal' = TRUE /\ dur' = 0
  /\ UNCHANGED <<blocked, inflight, snapshot, daemon, up, errlog, lastProbe, lastSite,
                 loadsSinceProbe, sleepsSinceProbe, loadsInCycle, lastKind, wokeFrom,
                 cycleFirst, failure>>

\* ------------------------------------------------------------- environment
\* The task sees and changes the daemon only when the daemon serves one of its
\* requests, so whatever other clients and the daemon did since the last request
\* was served is applied while the next one is on its way.
Running == pc # "stopped" /\ blocked

HasName(models, n) == \E i \in 1..Len(models) : models[i].name = n

\* another client loads a model, or uses a resident one and so renews its expiry
EnvLoad ==
  /\ Running
  /\ \E n \in OtherNames \cup {TARGET_MODEL}, e \in ExpiryChoices \cup {ZeroTs} :
       /\ HasName(daemon, n) \/ Len(daemon) < MaxModels
       /\ daemon' = Insert(daemon, Rec(n, e))
       /\ daemon' # daemon
  /\ UNCHANGED <<pc, blocked, inflight, snapshot, dur, up, errlog, stopSignal,
                 lastProbe, lastSite, loadsSinceProbe, sleepsSinceProbe,
                 loadsInCycle, lastKind, wokeFrom, cycleFirst, failure>>

\* the daemon unloads a model (its keep-alive ran out, or a client asked)
EnvUnload ==
  /\ Running
  /\ \E i \in 1..Len(daemon) :
       daemon' = [j \in 1..(Len(daemon) - 1) |-> IF j < i THEN daemon[j] ELSE daemon[j + 1]]
  /\ UNCHANGED <<pc, blocked, inflight, snapshot, dur, up, errlog, stopSignal,
                 lastProbe, lastSite, loadsSinceProbe, sleepsSinceProbe,
                 loadsInCycle, lastKind, wokeFrom, cycleFirst, failure>>

\* the daemon becomes unreachable / reachable again
EnvToggle ==
  /\ Running
  /\ up' = ~up
  /\ UNCHANGED <<pc, blocked, inflight, snapshot, dur, daemon, errlog, stopSignal,
                 lastProbe, lastSite, loadsSinceProbe, sleepsSinceProbe,
                 loadsInCycle, lastKind, wokeFrom, cycleFirst, failure>>

Next ==
  \/ IssueProbe
  \/ ProbeResponse
  \/ IssueLoad
  \/ LoadResponse
  \/ SleepDone
  \/ Stop
  \/ EnvLoad
  \/ EnvUnload
  \/ EnvToggle

Spec == Init /\ [][Next]_vars

\* The event loop resumes the single task when its sleep timer fires, the task
\* runs on to its next request, and a blocking client call returns or raises.
\* Nothing is assumed of the other clients, the daemon's state or the stop signal.
FairSpec ==
  /\ Spec
  /\ WF_vars(IssueProbe) /\ WF_vars(ProbeResponse)
  /\ WF_vars(IssueLoad) /\ WF_vars(LoadResponse)
  /\ WF_vars(SleepDone)


\* ------------------------------------------------------------- properties
ProbeInFlight == \E i \in 1..Len(inflight) : inflight[i].op = "ps"
LoadInFlight  == \E i \in 1..Len(inflight) : inflight[i].op = "generate"

\* the task has just received a probe response and has not moved since: snapshot
\* is that response
Deciding ==
  /\ lastProbe = "ok" /\ ~blocked /\ pc # "stopped"
  /\ sleepsSinceProbe = <<>> /\ loadsSinceProbe = 0

\* C1: after a probe that returned an empty set, exactly one load request for
\* the target is issued before the next probe: the request is still to be sent
\* only while the task stands at the load_model call, and from then on the
\* count is one, never two.
C1_OneLoadAfterEmptyProbe ==
  (lastProbe = "ok" /\ lastKind = "Empty") =>
     /\ \A i \in 1..Len(inflight) :
          inflight[i].op = "generate" => inflight[i].model = TARGET_MODEL
     /\ IF pc \in LoadSites /\ ~blocked
        THEN loadsSinceProbe = 0
        ELSE loadsSinceProbe = 1

\* the next probe is on its way after an empty probe inside the monitor and its load
C1_Witness ==
  /\ lastProbe = "ok" /\ lastKind = "Empty" /\ lastSite = "mon_probe"
  /\ pc = "main_probe" /\ ProbeInFlight /\ loadsSinceProbe = 1

\* C2: whenever load_model is called, the latest probe succeeded and returned
\* no models, and no sleep or wait lies between that probe and the load.
C2_LoadOnlyOnFreshEmptyProbe ==
  (pc \in LoadSites \/ LoadInFlight) =>
     /\ lastProbe = "ok" /\ lastKind = "Empty"
     /\ snapshot = <<>>
     /\ sleepsSinceProbe = <<>>
     /\ ~ProbeInFlight

\* a load request is in flight after the re-probe that follows an unload wait
C2_Witness == pc = "load_re" /\ LoadInFlight /\ lastSite = "re_probe"

\* C3 as claimed: no load request in the main-loop iteration whose probe
\* returned the target alone.
C3_NoLoadInTargetOnlyCycle == cycleFirst = "TargetOnly" => loadsInCycle = 0

\* C3 amended: after a probe that returned the target alone no load request is
\* issued before the next probe; in the iteration whose line-112 probe returned
\* the target alone a load request follows only a later probe, made inside the
\* monitor, that returned an empty set, and there is one such request.
C3_NoLoadBeforeNextProbe ==
  /\ (lastProbe = "ok" /\ lastKind = "TargetOnly") =>
        loadsSinceProbe = 0 /\ pc \notin LoadSites /\ ~LoadInFlight
  /\ (cycleFirst = "TargetOnly" /\ (loadsInCycle > 0 \/ pc \in LoadSites)) =>
        /\ lastProbe = "ok" /\ lastSite = "mon_probe" /\ lastKind = "Empty"
        /\ loadsInCycle = loadsSinceProbe /\ loadsInCycle <= 1

\* the iteration saw the target alone, the monitor then slept and later found
\* the daemon empty, and the load was sent
C3_Witness ==
  /\ cycleFirst = "TargetOnly" /\ loadsInCycle = 1 /\ LoadInFlight
  /\ wokeFrom = "sleep_mon_target"

\* C4 as claimed: no load request in the iteration whose first probe was Mixed.
C4_NoLoadInMixedCycle == cycleFirst = "Mixed" => loadsInCycle = 0

\* C4 amended: after a probe that returned Mixed no load request is issued
\* before the next probe (so none while consecutive probes return Mixed); in
\* the iteration whose first probe was Mixed a load request follows only a
\* later probe, made inside the monitor, that returned an empty set.
C4_NoLoadWhileMixed ==
  /\ (lastProbe = "ok" /\ lastKind = "Mixed") =>
        loadsSinceProbe = 0 /\ pc \notin LoadSites /\ ~LoadInFlight
  /\ (cycleFirst = "Mixed" /\ (loadsInCycle > 0 \/ pc \in LoadSites)) =>
        /\ lastProbe = "ok" /\ lastSite = "mon_probe" /\ lastKind = "Empty"
        /\ loadsInCycle = loadsSinceProbe /\ loadsInCycle <= 1

\* two consecutive probes returned Mixed (line 112, then line 62) and the
\* iteration ends without a load
C4_Witness ==
  /\ cycleFirst = "Mixed" /\ lastSite = "mon_probe" /\ lastKind = "Mixed"
  /\ pc = "sleep_cycle" /\ loadsInCycle = 0


\* ---- C5
\* the latest probe was made at `site` and returned others-only, none expiring
SawNeverOnly(site) == lastProbe = "ok" /\ lastKind = "OthersNever" /\ lastSite = site

Slept(site, d) == <<site, d>>

\* C5 as claimed: after a never-only snapshot seen at line 112 or line 62 there
\* is no load and a single MONITOR_INTERVAL sleep is all that precedes the next
\* probe.
C5_OnlyMonitorSleepBeforeNextProbe ==
  (SawNeverOnly("main_probe") \/ SawNeverOnly("mon_probe")) =>
     /\ loadsSinceProbe = 0 /\ pc \notin LoadSites
     /\ pc \in SleepSites => dur = MONITOR_INTERVAL /\ sleepsSinceProbe = <<>>
     /\ pc \in ProbeSites =>
          Len(sleepsSinceProbe) = 1 /\ sleepsSinceProbe[1][2] = MONITOR_INTERVAL

C5_NeverOnlySleeps ==
  /\ (lastProbe = "ok" /\ lastKind = "OthersNever") =>
        loadsSinceProbe = 0 /\ pc \notin LoadSites /\ ~LoadInFlight
  /\ SawNeverOnly("mon_probe") =>
        \/ pc = "sleep_mon_never" /\ dur = MONITOR_INTERVAL /\ sleepsSinceProbe = <<>>
        \/ pc = "mon_probe"
           /\ sleepsSinceProbe = <<Slept("sleep_mon_never", MONITOR_INTERVAL)>>
        \/ pc = "stopped"
  /\ SawNeverOnly("main_probe") =>
        \/ pc = "sleep_main_never" /\ dur = MONITOR_INTERVAL /\ sleepsSinceProbe = <<>>
        \/ pc = "sleep_cycle" /\ dur = CYCLE_INTERVAL
           /\ sleepsSinceProbe = <<Slept("sleep_main_never", MONITOR_INTERVAL)>>
        \/ pc = "main_probe"
           /\ sleepsSinceProbe = <<Slept("sleep_main_never", MONITOR_INTERVAL),
                                   Slept("sleep_cycle", CYCLE_INTERVAL)>>
        \/ pc = "stopped"
  /\ SawNeverOnly("re_probe") =>
        \/ pc = "sleep_cycle" /\ dur = CYCLE_INTERVAL /\ sleepsSinceProbe = <<>>
        \/ pc = "main_probe"
           /\ sleepsSinceProbe = <<Slept("sleep_cycle", CYCLE_INTERVAL)>>
        \/ pc = "stopped"

\* the daemon is reachable, holds only non-target models without expiry, and the
\* task has not been stopped
NeverOnlyHeld == up /\ Classify(daemon) = "OthersNever" /\ pc # "stopped"

\* C5 amended: after a never-only snapshot there is no load, and what precedes
\* the next probe is the MONITOR_INTERVAL sleep inside the monitor, the
\* MONITOR_INTERVAL sleep followed by the CYCLE_INTERVAL sleep in main, and the
\* CYCLE_INTERVAL sleep alone after a re-probe; if the daemon holds such a set
\* for ever, the task probes again and again and no load request is made.
C5_NeverOnlyPollsForever ==
  /\ []C5_NeverOnlySleeps
  /\ (<>[]NeverOnlyHeld) => ([]<>ProbeInFlight /\ <>[]~LoadInFlight)

\* main slept 60 s and then 5 s on a never-only snapshot and probes again
C5_Witness ==
  /\ SawNeverOnly("main_probe") /\ pc = "main_probe" /\ ProbeInFlight
  /\ Len(sleepsSinceProbe) = 2

\* ---- C6
RECURSIVE MaxNumericExpiryFrom(_, _, _)
MaxNumericExpiryFrom(models, i, best) ==
  IF i > Len(models) THEN best
  ELSE IF models[i].expires_at = ZeroTs THEN MaxNumericExpiryFrom(models, i + 1, best)
  ELSE MaxNumericExpiryFrom(models, i + 1, Max(best, models[i].expires_at))

\* the maximum expiry over the records that have one
MaxNumericExpiry(models) == MaxNumericExpiryFrom(models, 1, ZeroTs)

\* C6 as claimed: on an others-only snapshot with a numeric expiry, seen at
\* line 112 or line 62, the wait before the next probe is max(0, t + 5 - now),
\* t the maximum expiry.
C6_WaitIsMaxExpiryPlusBuffer ==
  (Deciding /\ lastSite \in {"main_probe", "mon_probe"}
            /\ Classify(snapshot) = "OthersExpiring") =>
     LET t == MaxNumericExpiry(snapshot)
         w == Max(0, t + UNLOAD_BUFFER - Now)
     IN IF w > 0 THEN pc \in {"wait_main", "wait_mon"} /\ dur = w
                 ELSE pc \in ProbeSites

\* ---- C7
HasFutureExpiry(models) ==
  \E i \in 1..Len(models) : models[i].expires_at # ZeroTs /\ models[i].expires_at > Now

\* the latest probe was the first request after an unload wait
AfterUnloadWait == wokeFrom \in {"wait_main", "wait_mon"}

OneLoadOrAboutTo ==
  IF pc \in LoadSites /\ ~blocked THEN loadsSinceProbe = 0 ELSE loadsSinceProbe = 1

C8_ProbeFailureBacksOff ==
  lastProbe = "failed" =>
     /\ loadsSinceProbe = 0 /\ ~LoadInFlight
     /\ pc \in {"backoff", "main_probe", "stopped"}
     /\ pc = "backoff" =>
          /\ dur = BACKOFF /\ sleepsSinceProbe = <<>>
          /\ failure = "probe" /\ loadsInCycle = 0
          /\ {"check", "main"} \subseteq errlog
          /\ lastSite = "mon_probe" => "monitor" \in errlog
     /\ pc = "main_probe" => sleepsSinceProbe = <<Slept("backoff", BACKOFF)>>

\* the re-probe after an unload wait failed and the next iteration's probe is sent
C8_Witness ==
  /\ lastProbe = "failed" /\ lastSite = "re_probe"
  /\ pc = "main_probe" /\ ProbeInFlight

\* C9: the task ends only through the stop signal: a failed probe, a failed load
\* or a nameless record never ends it, and unless it is stopped it probes again.
Terminated == pc \notin (ProbeSites \cup LoadSites \cup SleepSites)

C9_OnlyStopTerminates ==
  /\ [](Terminated => stopSignal)
  /\ []<>(Terminated \/ ProbeInFlight)

\* a nameless record in the re-probe was survived: backoff done, probing again
C9_Witness ==
  /\ lastProbe = "ok" /\ lastKind = "Malformed" /\ lastSite = "re_probe"
  /\ pc = "main_probe" /\ ProbeInFlight /\ ~stopSignal
  /\ sleepsSinceProbe = <<Slept("backoff", BACKOFF)>>

\* C10: whenever the daemon is reachable and empty and the task has not been
\* stopped, a load request for the target follows unless the daemon stops being
\* reachable and empty, or the task is stopped, first.
Quiet == up /\ daemon = <<>> /\ pc # "stopped"

C10_EmptyDaemonLeadsToLoad == Quiet ~> (LoadInFlight \/ ~Quiet)

\* inside the monitor the other models ran out during the unload wait, the next
\* probe was empty and the load is sent
C10_Witness ==
  /\ wokeFrom = "wait_mon"
  /\ lastProbe = "ok" /\ lastKind = "Empty" /\ lastSite = "mon_probe"
  /\ pc = "load_mon" /\ LoadInFlight

\* ---- C11
HoldsOther(models) == \E i \in 1..Len(models) : models[i].name # TARGET_MODEL

\* C11 as claimed: whatever other clients do, no load request of the task is
\* outstanding at the daemon while the daemon holds a non-target model.
C11_NoLoadOntoOtherModel == LoadInFlight => ~HoldsOther(daemon)

\* ---- C12
\* C12: the stop signal can be delivered at every suspension point; when it is,
\* the task leaves the loop at once, without an error being logged and without
\* a backoff, and from then on it issues no probe and no load request.
C12_StopEndsLoop ==
  /\ [](pc \in SleepSites => ENABLED Stop)
  /\ [](stopSignal => pc = "stopped" /\ ~blocked /\ inflight = <<>>)
  /\ [][(stopSignal' /\ ~stopSignal) =>
          /\ pc \in SleepSites /\ pc' = "stopped"
          /\ errlog' = errlog /\ inflight' = inflight]_vars
  /\ [][stopSignal => UNCHANGED <<pc, inflight, errlog>>]_vars

\* the task was stopped during the backoff that followed a failed probe of the
\* monitor
C12_Witness ==
  /\ stopSignal /\ pc = "stopped"
  /\ failure = "probe" /\ lastSite = "mon_probe" /\ sleepsSinceProbe = <<>>

\* ---- C13
\* the latest probe was made at `site` and returned the classification `kind`
Saw(site, kind) == lastProbe = "ok" /\ lastSite = site /\ lastKind = kind

\* C13 as claimed: after a Mixed snapshot there is no load, the task sleeps
\* MONITOR_INTERVAL and its next probe is the monitor's.
C13_MixedPollsAtMonitorInterval ==
  (lastProbe = "ok" /\ lastKind = "Mixed" /\ pc # "stopped") =>
     /\ loadsSinceProbe = 0 /\ pc \notin LoadSites
     /\ pc \in SleepSites => dur = MONITOR_INTERVAL /\ sleepsSinceProbe = <<>>
     /\ pc \in ProbeSites =>
          /\ pc = "mon_probe"
          /\ Len(sleepsSinceProbe) = 1 /\ sleepsSinceProbe[1][2] = MONITOR_INTERVAL

\* C13 amended: after a Mixed snapshot there is no load and no MONITOR_INTERVAL
\* sleep. Seen at line 112 it is followed at once, with no sleep, by the probe
\* of the monitor; seen by the monitor (or by the re-probe) it ends the
\* iteration: the monitor returns, main sleeps CYCLE_INTERVAL and probes at
\* line 112 again.
C13_MixedLeavesMonitor ==
  /\ (lastProbe = "ok" /\ lastKind = "Mixed") =>
        loadsSinceProbe = 0 /\ pc \notin LoadSites /\ ~LoadInFlight
  /\ Saw("main_probe", "Mixed") => pc = "mon_probe" /\ sleepsSinceProbe = <<>>
  /\ (Saw("mon_probe", "Mixed") \/ Saw("re_probe", "Mixed")) =>
        \/ pc = "sleep_cycle" /\ dur = CYCLE_INTERVAL /\ sleepsSinceProbe = <<>>
        \/ pc = "main_probe"
           /\ sleepsSinceProbe = <<Slept("sleep_cycle", CYCLE_INTERVAL)>>
        \/ pc = "stopped"

\* the monitor saw Mixed and returned, main slept the cycle interval and its
\* next probe is on its way
C13_Witness ==
  /\ Saw("mon_probe", "Mixed")
  /\ pc = "main_probe" /\ ProbeInFlight
  /\ sleepsSinceProbe = <<Slept("sleep_cycle", CYCLE_INTERVAL)>>

\* ---- C14
\* C14 as claimed: after a snapshot with the target alone there is no load, the
\* task sleeps CYCLE_INTERVAL and its next probe is that of line 112.
C14_TargetOnlyContinuesCycle ==
  (lastProbe = "ok" /\ lastKind = "TargetOnly" /\ pc # "stopped") =>
     /\ loadsSinceProbe = 0 /\ pc \notin LoadSites
     /\ pc \in SleepSites =>
          pc = "sleep_cycle" /\ dur = CYCLE_INTERVAL /\ sleepsSinceProbe = <<>>
     /\ pc \in ProbeSites =>
          /\ pc = "main_probe"
          /\ sleepsSinceProbe = <<Slept("sleep_cycle", CYCLE_INTERVAL)>>

\* C14 amended: after a snapshot with the target alone there is no load. Seen at
\* line 112 it is followed at once, with no sleep, by the probe of the monitor;
\* seen by the monitor it is followed by the MONITOR_INTERVAL sleep and the
\* monitor's next probe, inside the same iteration of main; only after the
\* re-probe that follows an unload wait does the CYCLE_INTERVAL sleep and the
\* next iteration's probe come next.
C14_TargetOnlyStaysInMonitor ==
  /\ (lastProbe = "ok" /\ lastKind = "TargetOnly") =>
        loadsSinceProbe = 0 /\ pc \notin LoadSites /\ ~LoadInFlight
  /\ Saw("main_probe", "TargetOnly") => pc = "mon_probe" /\ sleepsSinceProbe = <<>>
  /\ Saw("mon_probe", "TargetOnly") =>
        \/ pc = "sleep_mon_target" /\ dur = MONITOR_INTERVAL /\ sleepsSinceProbe = <<>>
        \/ pc = "mon_probe"
           /\ sleepsSinceProbe = <<Slept("sleep_mon_target", MONITOR_INTERVAL)>>
        \/ pc = "stopped"
  /\ Saw("re_probe", "TargetOnly") =>
        \/ pc = "sleep_cycle" /\ dur = CYCLE_INTERVAL /\ sleepsSinceProbe = <<>>
        \/ pc = "main_probe"
           /\ sleepsSinceProbe = <<Slept("sleep_cycle", CYCLE_INTERVAL)>>
        \/ pc = "stopped"

\* two polls of the monitor in a row returned the target alone and the monitor
\* sleeps its interval again
C14_Witness ==
  /\ Saw("mon_probe", "TargetOnly") /\ wokeFrom = "sleep_mon_target"
  /\ pc = "sleep_mon_target" /\ dur = MONITOR_INTERVAL

\* ---- C15
\* what a decision amounts to: a load, an unload wait of some duration, the
\* MONITOR_INTERVAL sleep, the error backoff, or nothing
ActionOf(d) ==
  IF d.pc \in LoadSites THEN <<"load", 0>>
  ELSE IF d.pc \in {"wait_main", "wait_mon"} THEN <<"wait", d.dur>>
  ELSE IF d.pc \in {"sleep_main_never", "sleep_mon_never", "sleep_mon_target"}
       THEN <<"sleep", d.dur>>
  ELSE IF d.pc = "backoff" THEN <<"backoff", d.dur>>
  ELSE <<"none", 0>>

\* C15 as claimed, on the snapshots without the target (lines 74-99 and
\* 123-150): what the task does on a snapshot it has just received, and for how
\* long it waits, is what it would do had it received the same snapshot at the
\* same time at the other probe, that of line 112 or that of the monitor.
C15_DecisionIndependentOfSite ==
  (Deciding /\ lastSite \in {"main_probe", "mon_probe"}
            /\ ~NamesRaise(snapshot) /\ TARGET_MODEL \notin ModelNames(snapshot)) =>
     \A site \in {"main_probe", "mon_probe"} :
        ActionOf(Decide(site, snapshot)) = ActionOf(Go(pc, dur, {}))

\* ---- C16
\* the latest sleep that ended was the error backoff
BackoffDone ==
  sleepsSinceProbe # <<>> /\ sleepsSinceProbe[Len(sleepsSinceProbe)][1] = "backoff"

\* C16: a failed load, a failed probe or an unreadable snapshot, in main or
\* inside the monitor, is logged by main and followed by nothing but the
\* 10-second backoff; after the backoff the task stands at the line-112 probe
\* of a new iteration with nothing kept of the failed one; and a load request is
\* made only on an empty probe just answered, in an iteration without a failure.
C16_NoLocalRetry ==
  /\ failure # "none" =>
        /\ pc \in {"backoff", "stopped"} /\ ~blocked /\ inflight = <<>>
        /\ pc = "backoff" => dur = BACKOFF
        /\ "main" \in errlog /\ sleepsSinceProbe = <<>>
  /\ failure = "load" =>
        /\ "load" \in errlog
        /\ loadsSinceProbe = 1 /\ lastProbe = "ok" /\ lastKind = "Empty"
  /\ (failure \in {"probe", "malformed"} /\ lastSite = "mon_probe") =>
        "monitor" \in errlog /\ loadsSinceProbe = 0
  /\ BackoffDone =>
        /\ pc = "main_probe" /\ ~LoadInFlight
        /\ sleepsSinceProbe = <<Slept("backoff", BACKOFF)>>
        /\ failure = "none" /\ errlog = {}
        /\ loadsInCycle = 0 /\ cycleFirst = "none"
  /\ (pc \in LoadSites \/ LoadInFlight) =>
        /\ failure = "none" /\ errlog = {}
        /\ lastProbe = "ok" /\ lastKind = "Empty" /\ sleepsSinceProbe = <<>>

\* the load that followed an empty probe of the monitor failed and main sleeps
\* the backoff
C16_Witness ==
  /\ failure = "load" /\ lastSite = "mon_probe"
  /\ pc = "backoff" /\ dur = BACKOFF /\ loadsInCycle = 1

\* ---- C17
\* C17: at most one request of the task is outstanding at the daemon, the task
\* does nothing while one is, and every load request names TARGET_MODEL with
\* the indefinite keep-alive.
C17_OneRequestInFlight ==
  /\ Len(inflight) <= 1
  /\ blocked <=> inflight # <<>>
  /\ ~(ProbeInFlight /\ LoadInFlight)
  /\ ProbeInFlight => pc \in ProbeSites
  /\ LoadInFlight => pc \in LoadSites
  /\ \A i \in 1..Len(inflight) :
       inflight[i].op = "generate" =>
          inflight[i].model = TARGET_MODEL /\ inflight[i].keep_alive = KEEP_ALIVE

\* the load that follows the re-probe is the one request outstanding, in an
\* iteration that has made two probes before it
C17_Witness ==
  /\ Len(inflight) = 1 /\ Head(inflight).op = "generate"
  /\ Head(inflight).model = TARGET_MODEL
  /\ pc = "load_re" /\ cycleFirst = "OthersExpiring" /\ wokeFrom = "wait_main"

\* ---- C18
\* the latest probe returned a non-empty snapshot without the target
SawOthersOnly == lastProbe = "ok" /\ lastKind \in {"OthersNever", "OthersExpiring"}

SomePositiveSleep == \E i \in 1..Len(sleepsSinceProbe) : sleepsSinceProbe[i][2] > 0

====
